---- MODULE Spec2Model ----
(***************************************************************************)
(* Model of redis-from-scratch: the command dispatcher of src/handler.rs   *)
(* (CommandHandler::handle and the six commands) run by the serve loop of  *)
(* src/main.rs against one in-memory store.                                *)
(*                                                                         *)
(* A RespData value is a record tagged with the variant's name.  Text is a *)
(* TLA+ string.  The store is a function from the keys present to          *)
(* RedisValue records.  Every command returns the SET of outcomes the code *)
(* can produce: a singleton everywhere except HGETALL, whose reply follows *)
(* the iteration order of a std HashMap, which is unspecified.             *)
(***************************************************************************)
EXTENDS Integers, Sequences, FiniteSets, TLC

VARIABLES db, pc, req, reply

\* the codec at work on its own: a value, the bytes written or received, the
\* result of reading them, and how far the exchange has come
VARIABLES data, buf, decoded, cpc

codec_vars == <<data, buf, decoded, cpc>>

vars == <<db, pc, req, reply, data, buf, decoded, cpc>>

(***************************************************************************)
(* Bounds of the model.                                                    *)
(***************************************************************************)
\* arguments (elements after the command name) of the longest request
MaxArgs == 5
\* elements of the longest array the codec writes
MaxItems == 2

(***************************************************************************)
(* The least number of elements of an HSET request: command, key, and one  *)
(* field/value pair.                                                       *)
(***************************************************************************)
MinHsetLen == 4

(***************************************************************************)
(* RespData (src/resp.rs) and RedisValue (src/handler.rs).                 *)
(***************************************************************************)
SimpleString(t) == [tag |-> "SimpleString", s |-> t]
Error(t) == [tag |-> "Error", s |-> t]
Integer(i) == [tag |-> "Integer", n |-> i]
BulkString(t) == [tag |-> "BulkString", s |-> t]
Array(a) == [tag |-> "Array", items |-> a]
Null == [tag |-> "Null"]

RespTags == {"SimpleString", "Error", "Integer", "BulkString", "Array", "Null"}

String(t) == [kind |-> "String", s |-> t]
Hash(m) == [kind |-> "Hash", map |-> m]

\* HashMap::new()
EmptyMap == [k \in {} |-> ""]

\* HashMap::insert: the entry is added, or its value replaced
Insert(m, k, v) == [x \in DOMAIN m \cup {k} |-> IF x = k THEN v ELSE m[x]]

(***************************************************************************)
(* str::to_uppercase on the texts of the model: the letters a-z become     *)
(* A-Z, every other character is kept.                                     *)
(***************************************************************************)
to_uppercase(t) ==
    CASE t = "ping" -> "PING"
      [] t = "set" -> "SET"
      [] t = "get" -> "GET"
      [] t = "hset" -> "HSET"
      [] t = "hget" -> "HGET"
      [] t = "hgetall" -> "HGETALL"
      [] t = "foo" -> "FOO"
      [] t = "a" -> "A"
      [] OTHER -> t

(***************************************************************************)
(* Outcomes of one call of handle: the store it leaves, and either the     *)
(* value it returns or the fact that it panicked.                          *)
(***************************************************************************)
NoValue == [tag |-> "None"]

Return(d, r) == [db |-> d, reply |-> r, panicked |-> FALSE]
Panic(d) == [db |-> d, reply |-> NoValue, panicked |-> TRUE]

IsArray(resp) == resp.tag = "Array"
IsBulk(resp) == resp.tag = "BulkString"

\* ping as it would be if it left a trace of itself in the store
ping_leaves_trace(d) == {Return(Insert(d, "PING", String("PONG")), SimpleString("PONG"))}

\* CommandHandler::ping
ping(d) == {Return(d, SimpleString("PONG"))}

\* set as it would be if it inserted only where the key is vacant
set_keeps_prior(d, resp) ==
    IF ~IsArray(resp) THEN {Return(d, Error("syntax error"))}
    ELSE LET arr == resp.items IN
      IF Len(arr) > 3 THEN {Return(d, Error("syntax error"))}
      ELSE IF ~(Len(arr) = 3 /\ IsBulk(arr[2]) /\ IsBulk(arr[3]))
        THEN {Return(d, Error("wrong number of arguments for 'set' command"))}
      ELSE IF arr[2].s \in DOMAIN d THEN {Return(d, SimpleString("OK"))}
      ELSE {Return(Insert(d, arr[2].s, String(arr[3].s)), SimpleString("OK"))}

\* set as it would be without the check of arr.len() > 3
set_no_length_check(d, resp) ==
    IF ~IsArray(resp) THEN {Return(d, Error("syntax error"))}
    ELSE LET arr == resp.items IN
      IF ~(Len(arr) = 3 /\ IsBulk(arr[2]) /\ IsBulk(arr[3]))
        THEN {Return(d, Error("wrong number of arguments for 'set' command"))}
      ELSE {Return(Insert(d, arr[2].s, String(arr[3].s)), SimpleString("OK"))}

\* CommandHandler::set
set(d, resp) ==
    IF ~IsArray(resp) THEN {Return(d, Error("syntax error"))}
    ELSE LET arr == resp.items IN
      IF Len(arr) > 3 THEN {Return(d, Error("syntax error"))}
      ELSE IF ~(Len(arr) = 3 /\ IsBulk(arr[2]) /\ IsBulk(arr[3]))
        THEN {Return(d, Error("wrong number of arguments for 'set' command"))}
      ELSE {Return(Insert(d, arr[2].s, String(arr[3].s)), SimpleString("OK"))}

\* get as it would be if, like hget, it answered WRONGTYPE for a value of the other variant
get_wrongtype_on_hash(d, resp) ==
    IF ~IsArray(resp) THEN {Return(d, Error("syntax error"))}
    ELSE LET arr == resp.items IN
      IF Len(arr) # 2
        THEN {Return(d, Error("wrong number of arguments for 'get' command"))}
      ELSE IF ~IsBulk(arr[2]) THEN {Return(d, Error("syntax error"))}
      ELSE LET key == arr[2].s IN
        IF key \notin DOMAIN d THEN {Return(d, Null)}
        ELSE IF d[key].kind = "String" THEN {Return(d, BulkString(d[key].s))}
        ELSE {Return(d, Error("WRONGTYPE Operation against a key holding the wrong kind of value"))}

\* CommandHandler::get
get(d, resp) ==
    IF ~IsArray(resp) THEN {Return(d, Error("syntax error"))}
    ELSE LET arr == resp.items IN
      IF Len(arr) # 2
        THEN {Return(d, Error("wrong number of arguments for 'get' command"))}
      ELSE IF ~IsBulk(arr[2]) THEN {Return(d, Error("syntax error"))}
      ELSE LET key == arr[2].s IN
        IF key \notin DOMAIN d THEN {Return(d, Null)}
        ELSE IF d[key].kind = "String" THEN {Return(d, BulkString(d[key].s))}
        ELSE {Return(d, Null)}

(***************************************************************************)
(* The loop of hset over pairs.chunks_exact(2): chunk j is the pair        *)
(* (pairs[2j-1], pairs[2j]); a trailing single element is in no chunk.     *)
(* The loop returns the mapping as it stands when the function returns.    *)
(***************************************************************************)
RECURSIVE hset_loop(_, _, _, _)
hset_loop(map, pairs, j, new_fields_count) ==
    IF j > Len(pairs) \div 2 THEN [map |-> map, reply |-> Integer(new_fields_count)]
    ELSE IF ~IsBulk(pairs[2 * j - 1])
      THEN [map |-> map, reply |-> Error("Invalid field type")]
    ELSE IF ~IsBulk(pairs[2 * j])
      THEN [map |-> map, reply |-> Error("Invalid value type")]
    ELSE LET field == pairs[2 * j - 1].s
             value == pairs[2 * j].s
             is_new == field \notin DOMAIN map
         IN hset_loop(Insert(map, field, value), pairs, j + 1,
                      IF is_new THEN new_fields_count + 1 ELSE new_fields_count)

\* the element of the request that hset takes as the key of the hash: &arr[0]
hset_key(arr) == arr[1]

\* the elements hset takes as the field/value list: &arr[1..]
hset_pairs(arr) == Tail(arr)

\* a store without the key k
Without(d, k) == [x \in DOMAIN d \ {k} |-> d[x]]

\* hset as it would be if it took the mapping out of the store while it worked on it
\* and put it back only when every pair was applied
hset_takes_map_out(d, resp) ==
    LET arity == Error("wrong number of arguments for 'hset' command") IN
    IF ~IsArray(resp) THEN {Return(d, arity)}
    ELSE LET arr == resp.items IN
      IF Len(arr) < MinHsetLen \/ Len(arr) % 2 # 0 THEN {Return(d, arity)}
      ELSE IF ~IsBulk(hset_key(arr)) THEN {Return(d, arity)}
      ELSE LET hash_key == hset_key(arr).s
               pairs == hset_pairs(arr)
           IN
        IF hash_key \in DOMAIN d /\ d[hash_key].kind # "Hash"
          THEN {Return(d, Error("Key exists but value is not a map"))}
        ELSE LET hash_map == IF hash_key \in DOMAIN d THEN d[hash_key].map
                             ELSE EmptyMap
                 done == hset_loop(hash_map, pairs, 1, 0)
             IN IF done.reply.tag = "Error"
                  THEN {Return(Without(d, hash_key), done.reply)}
                  ELSE {Return(Insert(d, hash_key, Hash(done.map)), done.reply)}

\* hset as it would be without the check that the element count is even
hset_no_parity_check(d, resp) ==
    LET arity == Error("wrong number of arguments for 'hset' command") IN
    IF ~IsArray(resp) THEN {Return(d, arity)}
    ELSE LET arr == resp.items IN
      IF Len(arr) < MinHsetLen THEN {Return(d, arity)}
      ELSE IF ~IsBulk(hset_key(arr)) THEN {Return(d, arity)}
      ELSE LET hash_key == hset_key(arr).s
               pairs == hset_pairs(arr)
           IN
        IF hash_key \in DOMAIN d /\ d[hash_key].kind # "Hash"
          THEN {Return(d, Error("Key exists but value is not a map"))}
        ELSE LET hash_map == IF hash_key \in DOMAIN d THEN d[hash_key].map
                             ELSE EmptyMap
                 done == hset_loop(hash_map, pairs, 1, 0)
             IN {Return(Insert(d, hash_key, Hash(done.map)), done.reply)}

\* CommandHandler::hset
hset(d, resp) ==
    LET arity == Error("wrong number of arguments for 'hset' command") IN
    IF ~IsArray(resp) THEN {Return(d, arity)}
    ELSE LET arr == resp.items IN
      IF Len(arr) < MinHsetLen \/ Len(arr) % 2 # 0 THEN {Return(d, arity)}
      ELSE IF ~IsBulk(hset_key(arr)) THEN {Return(d, arity)}
      ELSE LET hash_key == hset_key(arr).s
               pairs == hset_pairs(arr)
           IN
        IF hash_key \in DOMAIN d /\ d[hash_key].kind # "Hash"
          THEN {Return(d, Error("Key exists but value is not a map"))}
        ELSE LET hash_map == IF hash_key \in DOMAIN d THEN d[hash_key].map
                             ELSE EmptyMap
                 done == hset_loop(hash_map, pairs, 1, 0)
             IN {Return(Insert(d, hash_key, Hash(done.map)), done.reply)}

\* hget as it would be if, like get, it answered Null for a value of the other variant
hget_null_on_string(d, resp) ==
    LET arity == Error("wrong number of arguments for 'hget' command") IN
    IF ~IsArray(resp) THEN {Return(d, arity)}
    ELSE LET arr == resp.items IN
      IF Len(arr) # 3 THEN {Return(d, arity)}
      ELSE IF ~(IsBulk(arr[2]) /\ IsBulk(arr[3])) THEN {Return(d, arity)}
      ELSE LET hash_key == arr[2].s
               field == arr[3].s
           IN
        IF hash_key \in DOMAIN d /\ d[hash_key].kind = "Hash"
             /\ field \in DOMAIN d[hash_key].map
          THEN {Return(d, BulkString(d[hash_key].map[field]))}
          ELSE {Return(d, Null)}

\* CommandHandler::hget
hget(d, resp) ==
    LET arity == Error("wrong number of arguments for 'hget' command") IN
    IF ~IsArray(resp) THEN {Return(d, arity)}
    ELSE LET arr == resp.items IN
      IF Len(arr) # 3 THEN {Return(d, arity)}
      ELSE IF ~(IsBulk(arr[2]) /\ IsBulk(arr[3])) THEN {Return(d, arity)}
      ELSE LET hash_key == arr[2].s
               field == arr[3].s
           IN
        IF hash_key \notin DOMAIN d THEN {Return(d, Null)}
        ELSE IF d[hash_key].kind = "Hash"
          THEN IF field \in DOMAIN d[hash_key].map
                 THEN {Return(d, BulkString(d[hash_key].map[field]))}
                 ELSE {Return(d, Null)}
        ELSE {Return(d, Error("WRONGTYPE Operation against a key holding the wrong kind of value"))}

\* the orders in which a HashMap with the key set S can be iterated
Orders(S) == {o \in [1..Cardinality(S) -> S] : \A i, j \in DOMAIN o : o[i] = o[j] => i = j}

\* the result vector of hgetall for one iteration order: field, value, field, value...
Entries(map, o) ==
    [i \in 1..(2 * Len(o)) |->
        IF i % 2 = 1 THEN BulkString(o[(i + 1) \div 2])
        ELSE BulkString(map[o[i \div 2]])]

\* hgetall as it would be if it answered Null where there is no hash
hgetall_null_on_missing(d, resp) ==
    LET arity == Error("wrong number of arguments for 'hgetall' command") IN
    IF ~IsArray(resp) THEN {Return(d, arity)}
    ELSE LET arr == resp.items IN
      IF Len(arr) < 2 THEN {Return(d, arity)}
      ELSE IF ~IsBulk(arr[2]) THEN {Panic(d)}
      ELSE LET hash_key == arr[2].s IN
        IF hash_key \in DOMAIN d /\ d[hash_key].kind = "Hash"
          THEN {Return(d, Array(Entries(d[hash_key].map, o))) :
                    o \in Orders(DOMAIN d[hash_key].map)}
          ELSE {Return(d, Null)}

\* CommandHandler::hgetall
hgetall(d, resp) ==
    LET arity == Error("wrong number of arguments for 'hgetall' command") IN
    IF ~IsArray(resp) THEN {Return(d, arity)}
    ELSE LET arr == resp.items IN
      IF Len(arr) < 2 THEN {Return(d, arity)}
      ELSE IF ~IsBulk(arr[2]) THEN {Panic(d)}
      ELSE LET hash_key == arr[2].s IN
        IF hash_key \in DOMAIN d /\ d[hash_key].kind = "Hash"
          THEN {Return(d, Array(Entries(d[hash_key].map, o))) :
                    o \in Orders(DOMAIN d[hash_key].map)}
          ELSE {Return(d, Array(<<>>))}

IsStringLike(resp) == resp.tag \in {"SimpleString", "BulkString"}

\* the command name handle extracts, when there is one
HasCmd(resp) ==
    \/ IsStringLike(resp)
    \/ IsArray(resp) /\ Len(resp.items) > 0 /\ IsStringLike(resp.items[1])

Cmd(resp) == IF IsArray(resp) THEN resp.items[1].s ELSE resp.s

\* the match as it would be if its default arm answered like PING
dispatch_default_ping(d, resp, name) ==
    CASE name = "SET" -> set(d, resp)
      [] name = "GET" -> get(d, resp)
      [] name = "HSET" -> hset(d, resp)
      [] name = "HGET" -> hget(d, resp)
      [] name = "HGETALL" -> hgetall(d, resp)
      [] OTHER -> ping(d)

\* the match on cmd.to_uppercase() in handle
dispatch(d, resp, name) ==
    CASE name = "PING" -> ping(d)
      [] name = "SET" -> set(d, resp)
      [] name = "GET" -> get(d, resp)
      [] name = "HSET" -> hset(d, resp)
      [] name = "HGET" -> hget(d, resp)
      [] name = "HGETALL" -> hgetall(d, resp)
      [] OTHER -> {Return(d, Error("Invalid command"))}

\* CommandHandler::handle
handle(d, resp) ==
    IF ~HasCmd(resp) THEN {Return(d, Error("Invalid command"))}
    ELSE dispatch(d, resp, to_uppercase(Cmd(resp)))

(***************************************************************************)
(* The codec of src/resp.rs.  On the wire a byte is a one-character string *)
(* and a text is the sequence of its bytes, so that a RespData value of    *)
(* the codec carries its text as a sequence: SimpleString(<<"O", "K">>).   *)
(***************************************************************************)
BULK_STRING == "$"
SIMPLE_STRING == "+"
ERROR == "-"
INTEGER == ":"
ARRAY == "*"
LINE_TERMINATORS == <<"\r", "\n">>

DigitChars == <<"0", "1", "2", "3", "4", "5", "6", "7", "8", "9">>

\* char::is_whitespace on the bytes of the model
WhiteSpace == {" ", "\t", "\r", "\n"}

\* the text "Unknown error" of Resp::read
UnknownError == <<"U", "n", "k", "n", "o", "w", "n", " ", "e", "r", "r", "o", "r">>

\* ToString::to_string of a natural number
RECURSIVE nat_to_string(_)
nat_to_string(n) ==
    IF n < 10 THEN <<DigitChars[n + 1]>>
    ELSE nat_to_string(n \div 10) \o <<DigitChars[(n % 10) + 1]>>

\* ToString::to_string of an i64 or a usize
to_string(n) == IF n < 0 THEN <<"-">> \o nat_to_string(0 - n) ELSE nat_to_string(n)

\* the concatenation of the sequences of a sequence
RECURSIVE Concat(_)
Concat(ss) == IF ss = <<>> THEN <<>> ELSE Head(ss) \o Concat(Tail(ss))

RECURSIVE write(_)

\* write as it would be if it closed an array with a line terminator of its own
write_array_terminated(v) ==
    CASE v.tag = "SimpleString" -> <<SIMPLE_STRING>> \o v.s \o LINE_TERMINATORS
      [] v.tag = "Error" -> <<ERROR>> \o <<"E", "R", "R", " ">> \o v.s \o LINE_TERMINATORS
      [] v.tag = "Integer" -> <<INTEGER>> \o to_string(v.n) \o LINE_TERMINATORS
      [] v.tag = "BulkString" ->
           <<BULK_STRING>> \o to_string(Len(v.s)) \o LINE_TERMINATORS
             \o v.s \o LINE_TERMINATORS
      [] v.tag = "Array" ->
           <<ARRAY>> \o to_string(Len(v.items)) \o LINE_TERMINATORS
             \o Concat([i \in 1..Len(v.items) |-> write(v.items[i])])
             \o (IF v.items = <<>> THEN <<>> ELSE LINE_TERMINATORS)
      [] v.tag = "Null" -> <<"$", "-", "1">> \o LINE_TERMINATORS

\* RespData::write: the bytes written to buf
write(v) ==
    CASE v.tag = "SimpleString" -> <<SIMPLE_STRING>> \o v.s \o LINE_TERMINATORS
      [] v.tag = "Error" -> <<ERROR>> \o <<"E", "R", "R", " ">> \o v.s \o LINE_TERMINATORS
      [] v.tag = "Integer" -> <<INTEGER>> \o to_string(v.n) \o LINE_TERMINATORS
      [] v.tag = "BulkString" ->
           <<BULK_STRING>> \o to_string(Len(v.s)) \o LINE_TERMINATORS
             \o v.s \o LINE_TERMINATORS
      [] v.tag = "Array" ->
           <<ARRAY>> \o to_string(Len(v.items)) \o LINE_TERMINATORS
             \o Concat([i \in 1..Len(v.items) |-> write(v.items[i])])
      [] v.tag = "Null" -> <<"$", "-", "1">> \o LINE_TERMINATORS

\* str::trim: the text without its leading and trailing white space
RECURSIVE trim_start(_)
trim_start(cs) ==
    IF cs # <<>> /\ Head(cs) \in WhiteSpace THEN trim_start(Tail(cs)) ELSE cs

RECURSIVE trim_end(_)
trim_end(cs) ==
    IF cs # <<>> /\ cs[Len(cs)] \in WhiteSpace
      THEN trim_end(SubSeq(cs, 1, Len(cs) - 1))
      ELSE cs

trim(cs) == trim_end(trim_start(cs))

\* the number of bytes BufRead::read_line takes: through the first "\n", or all that is left
LineLength(input) ==
    IF \E i \in 1..Len(input) : input[i] = "\n"
      THEN CHOOSE i \in 1..Len(input) : input[i] = "\n" /\ \A j \in 1..(i - 1) : input[j] # "\n"
      ELSE Len(input)

\* Resp::read_line: the line, trimmed, and the input left.  At the end of the
\* input BufRead::read_line reads nothing and returns Ok(0): the line is empty.
read_line(input) ==
    [line |-> trim(SubSeq(input, 1, LineLength(input))),
     rest |-> SubSeq(input, LineLength(input) + 1, Len(input))]

\* the value of a sequence of decimal digits
RECURSIVE digits_value(_)
digits_value(cs) ==
    IF cs = <<>> THEN 0
    ELSE 10 * digits_value(SubSeq(cs, 1, Len(cs) - 1))
           + ((CHOOSE d \in 1..10 : DigitChars[d] = cs[Len(cs)]) - 1)

IsDigits(cs) == cs # <<>> /\ \A i \in 1..Len(cs) : \E d \in 1..10 : DigitChars[d] = cs[i]

\* the results of reading
Ok(v, rest) == [status |-> "Ok", value |-> v, rest |-> rest]
Err(kind) == [status |-> "Err", kind |-> kind]
Panicked(why) == [status |-> "Panic", why |-> why]

\* Resp::read_integer: str::trim, then str::parse::<i64>, which takes an optional
\* sign and at least one digit; a failure becomes an io::Error of kind InvalidData.
\* The counts read here have few digits, far from the overflow of an i64.
read_integer(line) ==
    LET t == trim(line)
        signed == t # <<>> /\ t[1] \in {"+", "-"}
        digits == IF signed THEN Tail(t) ELSE t
    IN IF ~IsDigits(digits) THEN Err("InvalidData")
       ELSE [status |-> "Ok",
             value |-> IF signed /\ t[1] = "-" THEN 0 - digits_value(digits)
                       ELSE digits_value(digits)]

starts_with(line, c) == line # <<>> /\ line[1] = c

\* Resp::read, and its loop over the elements of an array.  A negative count
\* cast to usize is beyond what Vec::with_capacity can allocate: it panics.
RECURSIVE read(_)
RECURSIVE read_items(_, _, _)
read(input) ==
    LET first == read_line(input)
        line == first.line
    IN
    IF starts_with(line, SIMPLE_STRING)
      THEN Ok(SimpleString(read_line(first.rest).line), read_line(first.rest).rest)
    ELSE IF starts_with(line, BULK_STRING)
      THEN Ok(BulkString(read_line(first.rest).line), read_line(first.rest).rest)
    ELSE IF starts_with(line, ARRAY)
      THEN LET num == read_integer(Tail(line)) IN
           IF num.status = "Err" THEN num
           ELSE IF num.value < 0 THEN Panicked("capacity overflow")
           ELSE read_items(first.rest, num.value, <<>>)
    ELSE IF starts_with(line, INTEGER)
      THEN LET num == read_integer(Tail(line)) IN
           IF num.status = "Err" THEN num
           ELSE Ok(Integer(num.value), first.rest)
    ELSE Ok(Error(UnknownError), first.rest)

read_items(input, num, array) ==
    IF Len(array) = num THEN Ok(Array(array), input)
    ELSE LET item == read(input) IN
         IF item.status # "Ok" THEN item
         ELSE read_items(item.rest, num, Append(array, item.value))

(***************************************************************************)
(* The requests tried.  A request is a scalar, the empty array, or an      *)
(* array of a head and up to MaxArgs arguments, of which at most one is    *)
(* not a BulkString.  Requests shorter than the shortest HSET combine      *)
(* every head with every argument list; from that length on the head is    *)
(* one of LongHeads.                                                       *)
(***************************************************************************)
UpperCmds == {"PING", "SET", "GET", "HSET", "HGET", "HGETALL", "FOO"}

CmdTexts == UpperCmds \cup {"ping", "set", "get", "hset", "hget", "hgetall", "foo"}

ArgTexts == {"a", "HSET"}

Scalars == {BulkString(c) : c \in CmdTexts} \cup {SimpleString(c) : c \in CmdTexts}
             \cup {Integer(1), Null, Error("PING")}

Heads == Scalars \cup {Array(<<BulkString("PING")>>)}

LongHeads == {BulkString("HSET"), BulkString("hset"), SimpleString("HSET"),
              BulkString("SET"), BulkString("HGETALL"), BulkString("FOO")}

BulkArgs == {BulkString(t) : t \in ArgTexts}

OtherArgs == {SimpleString("a"), Integer(1), Null, Error("a"), Array(<<>>)}

\* the lists of n arguments with at most one argument of OtherArgs, the rest BulkArgs
ArgLists(n) ==
    [1..n -> BulkArgs]
      \cup {[l EXCEPT ![i] = o] : l \in [1..n -> BulkArgs], i \in 1..n, o \in OtherArgs}

ShortLists == UNION {ArgLists(n) : n \in 0..(MinHsetLen - 2)}

LongLists == UNION {ArgLists(n) : n \in (MinHsetLen - 1)..MaxArgs}

Requests ==
    Scalars \cup {Array(<<>>)}
      \cup {Array(<<h>> \o l) : h \in Heads, l \in ShortLists}
      \cup {Array(<<h>> \o l) : h \in LongHeads, l \in LongLists}

(***************************************************************************)
(* The serve loop of main: one connection at a time, its request handled   *)
(* against the one store, then its response written.  A panic inside       *)
(* handle ends the process.                                                *)
(***************************************************************************)
Init ==
    /\ db = [k \in {} |-> String("")]
    /\ pc = "accept"
    /\ req = NoValue
    /\ reply = NoValue
    /\ data = NoValue
    /\ buf = <<>>
    /\ decoded = NoValue
    /\ cpc = "off"

\* cmd_handler.handle(&data) for the request of the connection accepted
Handle ==
    /\ pc = "accept"
    /\ \E r \in Requests :
         /\ req' = r
         /\ \E out \in handle(db, r) :
              /\ db' = out.db
              /\ reply' = out.reply
              /\ pc' = IF out.panicked THEN "panicked" ELSE "write"
    /\ UNCHANGED codec_vars

\* Write as it would be if every connection were served against a store of its own
Write_fresh_store ==
    /\ pc = "write"
    /\ pc' = "accept"
    /\ req' = NoValue
    /\ reply' = NoValue
    /\ db' = [k \in {} |-> String("")]
    /\ UNCHANGED codec_vars

\* response.write(&mut writer), and on to the next connection
Write ==
    /\ pc = "write"
    /\ pc' = "accept"
    /\ req' = NoValue
    /\ reply' = NoValue
    /\ UNCHANGED <<db, codec_vars>>

Next ==
    \/ Handle
    \/ Write

Spec == Init /\ [][Next]_vars

(***************************************************************************)
(* The codec on its own: a value is written with RespData::write, the      *)
(* stream may end before all its bytes have arrived, and what arrived is   *)
(* read with Resp::read.  Bytes can also come from a client as they are.   *)
(***************************************************************************)
CodecTexts == {<<>>, <<"a">>, <<"O", "K">>, <<" ", "a">>}

CodecIntegers == {0 - 12, 0 - 1, 0, 7, 123}

Atoms ==
    {SimpleString(t) : t \in CodecTexts} \cup {BulkString(t) : t \in CodecTexts}
      \cup {Error(t) : t \in CodecTexts} \cup {Integer(i) : i \in CodecIntegers}
      \cup {Null}

ItemAtoms == {BulkString(<<"a">>), SimpleString(<<"O", "K">>), Integer(0 - 1), Null}

\* the sequences of up to MaxItems atoms
FlatLists == UNION {[1..n -> ItemAtoms] : n \in 0..MaxItems}

\* the same with one element replaced by an array of atoms
NestedLists ==
    UNION {{[l EXCEPT ![i] = Array(m)] : i \in DOMAIN l, m \in FlatLists} : l \in FlatLists}

\* arrays of an array of an array
DeepLists == {<<Array(<<Array(l)>>)>> : l \in FlatLists}

CodecValues == Atoms \cup {Array(l) : l \in FlatLists \cup NestedLists \cup DeepLists}

\* array headers a client can send, and what can follow them
NegativeCounts == {<<"-", "1">>, <<"-", "2">>}

NonNumericCounts == {<<>>, <<"x">>, <<"1", "x">>, <<"-">>}

CountTexts ==
    {<<"0">>, <<"1">>, <<"2">>, <<"+", "1">>, <<" ", "1">>}
      \cup NegativeCounts \cup NonNumericCounts

Followers ==
    {<<>>, write(Integer(7)), write(Integer(7)) \o write(BulkString(<<"a">>))}

RawInputs ==
    {<<ARRAY>> \o c \o LINE_TERMINATORS \o f : c \in CountTexts, f \in Followers}

CodecInit ==
    /\ db = [k \in {} |-> String("")]
    /\ pc = "accept"
    /\ req = NoValue
    /\ reply = NoValue
    /\ decoded = NoValue
    /\ \/ cpc = "value" /\ data \in CodecValues /\ buf = <<>>
       \/ cpc = "input" /\ data = NoValue /\ buf \in RawInputs

\* data.write(&mut buf)
Encode ==
    /\ cpc = "value"
    /\ buf' = write(data)
    /\ cpc' = "input"
    /\ UNCHANGED <<db, pc, req, reply, data, decoded>>

\* the stream ends when only the first n bytes of the message have arrived
Cut ==
    /\ cpc = "input"
    /\ data # NoValue
    /\ \E n \in 1..(Len(buf) - 1) : buf' = SubSeq(buf, 1, n)
    /\ cpc' = "cut"
    /\ UNCHANGED <<db, pc, req, reply, data, decoded>>

\* Resp::new(input).read()
Decode ==
    /\ cpc \in {"input", "cut"}
    /\ decoded' = read(buf)
    /\ cpc' = IF cpc = "cut" THEN "read_cut" ELSE "read"
    /\ UNCHANGED <<db, pc, req, reply, data, buf>>

CodecNext ==
    \/ Encode
    \/ Cut
    \/ Decode

SpecCodec == CodecInit /\ [][CodecNext]_vars

(***************************************************************************)
(* The serve loop with the bytes a connection can bring that Resp::read    *)
(* does not turn into a value.  main unwraps the result of read: an Err    *)
(* panics there, as a panic inside read does, and the process ends.        *)
(***************************************************************************)
\* resp.read().unwrap() on input that read returns no value for
ReadFails ==
    /\ pc = "accept"
    /\ \E input \in RawInputs :
         /\ read(input).status # "Ok"
         /\ buf' = input
         /\ decoded' = read(input)
    /\ pc' = "panicked"
    /\ UNCHANGED <<db, req, reply, data, cpc>>

ServeNext ==
    \/ Handle
    \/ Write
    \/ ReadFails

SpecServe == Init /\ [][ServeNext]_vars

(***************************************************************************)
(* Vocabulary of the properties.                                           *)
(***************************************************************************)
SixCmds == {"PING", "SET", "GET", "HSET", "HGET", "HGETALL"}

\* r is an Array request whose first element names the command `name` in any casing
IsCmdArray(r, name) ==
    /\ IsArray(r)
    /\ Len(r.items) > 0
    /\ IsStringLike(r.items[1])
    /\ to_uppercase(r.items[1].s) = name

\* all elements after the command name are BulkStrings
BulkArguments(r) == \A i \in 2..Len(r.items) : IsBulk(r.items[i])

\* the request [name, t1, ..., tn] as a client sends it: an Array of BulkStrings
Request(name, texts) ==
    Array(<<BulkString(name)>> \o [i \in 1..Len(texts) |-> BulkString(texts[i])])

\* a step of the serve loop that handles a request
Handling == pc = "accept" /\ pc' # "accept"

\* the step returned a reply (it did not panic)
Replied(v) == pc' = "write" /\ reply' = v

(***************************************************************************)
(* C1: for every store and all texts k, v, the request [SET, k, v] returns *)
(* SimpleString("OK") and leaves StringValue(v) at k whatever k held       *)
(* before, and a request [GET, k] that follows returns BulkString(v).      *)
(***************************************************************************)
C1_SetThenGet ==
    [][\A k, v \in ArgTexts :
         (/\ Handling
          /\ IsCmdArray(req', "SET")
          /\ req'.items = <<req'.items[1], BulkString(k), BulkString(v)>>)
         => /\ Replied(SimpleString("OK"))
            /\ k \in DOMAIN db'
            /\ db'[k] = String(v)
            /\ \A out \in handle(db', Request("GET", <<k>>)) :
                 ~out.panicked /\ out.reply = BulkString(v)]_vars

\* a SET of key "HSET" has just been answered OK and the store holds its string there
C1_Witness ==
    /\ pc = "write"
    /\ req = Request("SET", <<"HSET", "a">>)
    /\ reply = SimpleString("OK")
    /\ db["HSET"] = String("a")

(***************************************************************************)
(* C2: from a store where key h is absent, the requests [HSET, h, f1, v1], *)
(* [HSET, h, f1, v2], [HGET, h, f1] return Integer(1), Integer(0) and      *)
(* BulkString(v2).                                                         *)
(***************************************************************************)
C2_HsetTwiceThenHget ==
    [][\A h, f1, v1, v2 \in ArgTexts :
         (/\ Handling
          /\ h \notin DOMAIN db
          /\ req' = Request("HSET", <<h, f1, v1>>))
         => /\ Replied(Integer(1))
            /\ \A o2 \in handle(db', Request("HSET", <<h, f1, v2>>)) :
                 /\ o2.reply = Integer(0)
                 /\ \A o3 \in handle(o2.db, Request("HGET", <<h, f1>>)) :
                      o3.reply = BulkString(v2)]_vars

(***************************************************************************)
(* C3: from a store where key h is absent, [HSET, h, f1, v1, f2, v2] with  *)
(* f1 # f2 returns Integer(2), and a following [HGETALL, h] returns an     *)
(* Array holding exactly the pairs (f1, v1) and (f2, v2), each field       *)
(* immediately followed by its value, in either order.                     *)
(***************************************************************************)
C3_HsetTwoPairsThenHgetall ==
    [][\A h, f1, v1, f2, v2 \in ArgTexts :
         (/\ Handling
          /\ h \notin DOMAIN db
          /\ f1 # f2
          /\ req' = Request("HSET", <<h, f1, v1, f2, v2>>))
         => /\ Replied(Integer(2))
            /\ \A o2 \in handle(db', Request("HGETALL", <<h>>)) :
                 /\ ~o2.panicked
                 /\ o2.reply \in {Request(f1, <<v1, f2, v2>>), Request(f2, <<v2, f1, v1>>)}]_vars

(***************************************************************************)
(* C4: for every store and every request value, handle returns a Protocol  *)
(* Value: no request makes it panic.                                       *)
(***************************************************************************)
C4_HandleNeverPanics ==
    /\ pc # "panicked"
    /\ pc = "write" => reply.tag \in RespTags

(***************************************************************************)
(* C5: a 3-element request [HGET, h, field] returns Null when h is absent, *)
(* the WRONGTYPE error when h holds a StringValue, and when h holds a      *)
(* HashValue the BulkString of the field's value if the field is in the    *)
(* mapping and Null if it is not.                                          *)
(***************************************************************************)
C5_HgetReplies ==
    [][\A h, field \in ArgTexts :
         (/\ Handling
          /\ IsCmdArray(req', "HGET")
          /\ req'.items = <<req'.items[1], BulkString(h), BulkString(field)>>)
         => Replied(IF h \notin DOMAIN db THEN Null
                    ELSE IF db[h].kind = "String"
                      THEN Error("WRONGTYPE Operation against a key holding the wrong kind of value")
                    ELSE IF field \in DOMAIN db[h].map
                      THEN BulkString(db[h].map[field])
                    ELSE Null)]_vars

\* an HGET has just been answered with the WRONGTYPE error for a key holding a string
C5_Witness ==
    /\ pc = "write"
    /\ req = Request("HGET", <<"a", "HSET">>)
    /\ "a" \in DOMAIN db
    /\ db["a"].kind = "String"
    /\ reply = Error("WRONGTYPE Operation against a key holding the wrong kind of value")

(***************************************************************************)
(* C6: when key k holds a StringValue, a well-formed request               *)
(* [HSET, k, f, v, ...] returns Error("Key exists but value is not a       *)
(* map") and leaves the store unchanged.                                   *)
(***************************************************************************)
C6_HsetOnStringKey ==
    [][\A k \in ArgTexts :
         (/\ Handling
          /\ IsCmdArray(req', "HSET")
          /\ Len(req'.items) >= MinHsetLen
          /\ Len(req'.items) % 2 = 0
          /\ BulkArguments(req')
          /\ req'.items[2] = BulkString(k)
          /\ k \in DOMAIN db
          /\ db[k].kind = "String")
         => /\ Replied(Error("Key exists but value is not a map"))
            /\ db' = db]_vars

(***************************************************************************)
(* C7: a SET request Array of more than 3 elements returns                 *)
(* Error("syntax error"), one of fewer than 3 elements returns             *)
(* Error("wrong number of arguments for 'set' command"); the two replies   *)
(* differ, and in both cases the store is unchanged.                       *)
(***************************************************************************)
C7_SetArity ==
    [][(Handling /\ IsCmdArray(req', "SET") /\ Len(req'.items) # 3)
         => /\ Len(req'.items) > 3 => Replied(Error("syntax error"))
            /\ Len(req'.items) < 3 =>
                 Replied(Error("wrong number of arguments for 'set' command"))
            /\ Error("syntax error") # Error("wrong number of arguments for 'set' command")
            /\ db' = db]_vars

\* a SET with one argument too many has just been answered with the syntax error
C7_Witness ==
    /\ pc = "write"
    /\ req = Request("SET", <<"a", "a", "HSET">>)
    /\ reply = Error("syntax error")

(***************************************************************************)
(* C8: a request whose command name, upper-cased, is none of the six       *)
(* commands, and a request that is neither a string-like scalar nor an     *)
(* Array with a string-like first element (the empty Array included),      *)
(* returns Error("Invalid command") and leaves the store unchanged.        *)
(***************************************************************************)
C8_InvalidCommand ==
    [][(/\ Handling
        /\ \/ ~IsStringLike(req') /\ ~IsArray(req')
           \/ IsArray(req') /\ Len(req'.items) = 0
           \/ IsArray(req') /\ Len(req'.items) > 0 /\ ~IsStringLike(req'.items[1])
           \/ IsStringLike(req') /\ to_uppercase(req'.s) \notin SixCmds
           \/ /\ IsArray(req') /\ Len(req'.items) > 0 /\ IsStringLike(req'.items[1])
              /\ to_uppercase(req'.items[1].s) \notin SixCmds)
         => /\ Replied(Error("Invalid command"))
            /\ db' = db]_vars

\* an unknown command in lower case has just been rejected, the store holding a key
C8_Witness ==
    /\ pc = "write"
    /\ req = Request("foo", <<"a">>)
    /\ reply = Error("Invalid command")
    /\ "a" \in DOMAIN db

(***************************************************************************)
(* C9: dispatch is case-insensitive: two requests for one of the six       *)
(* commands that differ only in the letter case of the command name, run   *)
(* from the same store, give the same reply and the same resulting store.  *)
(***************************************************************************)
\* the two casings of each command name that the requests use
Casings ==
    {<<"PING", "ping">>, <<"SET", "set">>, <<"GET", "get">>, <<"HSET", "hset">>,
     <<"HGET", "hget">>, <<"HGETALL", "hgetall">>}

\* the texts that differ from t only in letter case, t included
Recasings(t) == {c[1] : c \in {x \in Casings : t \in {x[1], x[2]}}}
                  \cup {c[2] : c \in {x \in Casings : t \in {x[1], x[2]}}}

\* the request r with its command name replaced by c
Renamed(r, c) ==
    IF IsArray(r)
      THEN Array(<<[r.items[1] EXCEPT !.s = c]>> \o Tail(r.items))
      ELSE [r EXCEPT !.s = c]

C9_CaseInsensitive ==
    [][(Handling /\ HasCmd(req'))
         => \A c \in Recasings(Cmd(req')) :
              \E out \in handle(db, Renamed(req', c)) :
                /\ out.db = db'
                /\ out.reply = reply'
                /\ out.panicked = (pc' = "panicked")]_vars

(***************************************************************************)
(* C10: a request [HGETALL, k] where k is absent or holds a StringValue    *)
(* returns the empty Array, and the store is unchanged.                    *)
(***************************************************************************)
C10_HgetallMissing ==
    [][\A k \in ArgTexts :
         (/\ Handling
          /\ IsCmdArray(req', "HGETALL")
          /\ req'.items = <<req'.items[1], BulkString(k)>>
          /\ (k \notin DOMAIN db \/ db[k].kind = "String"))
         => /\ Replied(Array(<<>>))
            /\ db' = db]_vars

\* an HGETALL of a key holding a string has just been answered with the empty Array
C10_Witness ==
    /\ pc = "write"
    /\ req = Request("HGETALL", <<"a">>)
    /\ "a" \in DOMAIN db
    /\ db["a"].kind = "String"
    /\ reply = Array(<<>>)

(***************************************************************************)
(* C11: a 2-element request [GET, k] returns BulkString(v) exactly when    *)
(* the store holds StringValue(v) at k, and Null otherwise: for a key      *)
(* never set and for a key holding a HashValue.                            *)
(***************************************************************************)
C11_GetReplies ==
    [][\A k \in ArgTexts :
         (/\ Handling
          /\ IsCmdArray(req', "GET")
          /\ req'.items = <<req'.items[1], BulkString(k)>>)
         => Replied(IF k \in DOMAIN db /\ db[k].kind = "String"
                      THEN BulkString(db[k].s)
                      ELSE Null)]_vars

\* a GET of a key holding a hash has just been answered Null
C11_Witness ==
    /\ pc = "write"
    /\ req = Request("GET", <<"HSET">>)
    /\ "HSET" \in DOMAIN db
    /\ db["HSET"].kind = "Hash"
    /\ reply = Null

(***************************************************************************)
(* C12: the set of keys of the store never shrinks: a key present after    *)
(* some request is present after every later request.                      *)
(***************************************************************************)
C12_KeysNeverShrink == [][DOMAIN db \subseteq DOMAIN db']_vars

\* a request that failed with a type error has just been handled, and the store
\* still holds the three keys it can hold
C12_Witness ==
    /\ pc = "write"
    /\ reply = Error("Invalid value type")
    /\ DOMAIN db = {"a", "HSET", "hset"}

(***************************************************************************)
(* C13: from the empty store, a key enters the store only by a SET or HSET *)
(* request that names this key as its key argument and returns             *)
(* SimpleString("OK") or an Integer; a request answered by an Error adds   *)
(* no key.                                                                 *)
(***************************************************************************)
C13_KeysOnlyBySuccess ==
    [][\A k \in DOMAIN db' \ DOMAIN db :
         /\ IsCmdArray(req', "SET") \/ IsCmdArray(req', "HSET")
         /\ Len(req'.items) >= 2
         /\ IsStringLike(req'.items[2])
         /\ req'.items[2].s = k
         /\ reply' = SimpleString("OK") \/ reply'.tag = "Integer"]_vars

(***************************************************************************)
(* C14: a successful request [HSET, key, f1, v1, ..., fn, vn] returns      *)
(* Integer(c), c the number of distinct fields among f1..fn that were not  *)
(* in the mapping at key before the call (an absent key counting as the    *)
(* empty mapping); c is the growth of the field count of that mapping, and *)
(* after the call the mapping at key holds for each fi the value of its    *)
(* last occurrence.                                                        *)
(***************************************************************************)
\* the mapping stored at key k, the empty mapping if k is absent
MappingAt(d, k) == IF k \in DOMAIN d /\ d[k].kind = "Hash" THEN d[k].map ELSE EmptyMap

\* in a request [HSET, key, f1, v1, ...]: the number of pairs, the i-th field and value
PairCount(items) == (Len(items) - 2) \div 2
FieldOf(items, i) == items[2 * i + 1]
ValueOf(items, i) == items[2 * i + 2]

C14_HsetCountsNewFields ==
    [][(/\ Handling
        /\ IsCmdArray(req', "HSET")
        /\ Len(req'.items) >= MinHsetLen
        /\ Len(req'.items) % 2 = 0
        /\ BulkArguments(req')
        /\ pc' = "write"
        /\ reply'.tag = "Integer")
       => LET items == req'.items
              key == items[2].s
              before == MappingAt(db, key)
              after == MappingAt(db', key)
              fields == {FieldOf(items, i).s : i \in 1..PairCount(items)}
              c == Cardinality(fields \ DOMAIN before)
          IN /\ reply' = Integer(c)
             /\ key \in DOMAIN db' /\ db'[key].kind = "Hash"
             /\ Cardinality(DOMAIN after) - Cardinality(DOMAIN before) = c
             /\ \A i \in 1..PairCount(items) :
                  (\A j \in (i + 1)..PairCount(items) :
                      FieldOf(items, j) # FieldOf(items, i))
                  => /\ FieldOf(items, i).s \in DOMAIN after
                     /\ after[FieldOf(items, i).s] = ValueOf(items, i).s]_vars

(***************************************************************************)
(* C19: an Array request for GET, HSET, HGET or HGETALL whose element      *)
(* count breaks the command's arity rule (GET: not 2; HSET: fewer than 4   *)
(* or odd; HGET: not 3; HGETALL: fewer than 2) returns                     *)
(* Error("wrong number of arguments for '<cmd>' command"), <cmd> in lower  *)
(* case, and leaves the store unchanged.                                   *)
(***************************************************************************)
ArityError(r) ==
    CASE IsCmdArray(r, "GET") /\ Len(r.items) # 2
           -> Error("wrong number of arguments for 'get' command")
      [] IsCmdArray(r, "HSET") /\ (Len(r.items) < 4 \/ Len(r.items) % 2 = 1)
           -> Error("wrong number of arguments for 'hset' command")
      [] IsCmdArray(r, "HGET") /\ Len(r.items) # 3
           -> Error("wrong number of arguments for 'hget' command")
      [] IsCmdArray(r, "HGETALL") /\ Len(r.items) < 2
           -> Error("wrong number of arguments for 'hgetall' command")
      [] OTHER -> NoValue

C19_ArityErrors ==
    [][(Handling /\ ArityError(req') # NoValue)
         => /\ Replied(ArityError(req'))
            /\ db' = db]_vars

\* an HSET with a field that has no value has just been answered with the arity error
C19_Witness ==
    /\ pc = "write"
    /\ req = Request("HSET", <<"a", "a", "HSET", "a">>)
    /\ reply = Error("wrong number of arguments for 'hset' command")

(***************************************************************************)
(* C20: when an HSET request with a string-like key and a valid element    *)
(* count has a non-string-like field or value in its i-th pair, the reply  *)
(* is Error("Invalid field type") or Error("Invalid value type")           *)
(* respectively, the writes of pairs 1..i-1 remain applied in the mapping  *)
(* at key, and pairs i and later are not applied.                          *)
(***************************************************************************)
\* the pairs of the request that are not a string-like field with a string-like value
BadPairs(items) ==
    {i \in 1..PairCount(items) :
        ~IsStringLike(FieldOf(items, i)) \/ ~IsStringLike(ValueOf(items, i))}

FirstBadPair(items) == CHOOSE i \in BadPairs(items) : \A j \in BadPairs(items) : i <= j

\* the mapping after the pairs i..n of the request are written into it in order
RECURSIVE WithPairs(_, _, _, _)
WithPairs(map, items, i, n) ==
    IF i > n THEN map
    ELSE WithPairs(Insert(map, FieldOf(items, i).s, ValueOf(items, i).s), items, i + 1, n)

C20_HsetNoRollback ==
    [][(/\ Handling
        /\ IsCmdArray(req', "HSET")
        /\ Len(req'.items) >= MinHsetLen
        /\ Len(req'.items) % 2 = 0
        /\ IsStringLike(req'.items[2])
        /\ BadPairs(req'.items) # {})
       => LET items == req'.items
              key == items[2].s
              i == FirstBadPair(items)
          IN /\ Replied(IF ~IsStringLike(FieldOf(items, i))
                          THEN Error("Invalid field type")
                          ELSE Error("Invalid value type"))
             /\ MappingAt(db', key) = WithPairs(MappingAt(db, key), items, 1, i - 1)]_vars

(***************************************************************************)
(* C15.  A value of any variant but Error, written and read back, is the   *)
(* value that was written.                                                 *)
(*                                                                         *)
(* Resp::read takes the payload of a "+" line from the line after it, as   *)
(* it does for "$": SimpleString("OK") is written as +OK\r\n and read back *)
(* as SimpleString(""), and inside an array it takes the next element's    *)
(* first line for its text.  Null is written as $-1\r\n and read back as   *)
(* BulkString("").  read_line trims: " a" comes back as "a".               *)
(***************************************************************************)
C15_RoundTrip ==
    cpc = "read" /\ data # NoValue =>
        (data.tag # "Error" => decoded.status = "Ok" /\ decoded.value = data)

(***************************************************************************)
(* C16.  Reading an array header: a count of 0 gives the empty Array and   *)
(* leaves what follows the header unread; a negative count and a count     *)
(* that is not a number give an error result, not a panic and not an Array.*)
(*                                                                         *)
(* A negative count passes read_integer and reaches                        *)
(* Vec::with_capacity(num as usize), which panics.                         *)
(***************************************************************************)
C16_ArrayHeader ==
    \A c \in CountTexts, f \in Followers :
        cpc = "read" /\ data = NoValue /\ buf = <<ARRAY>> \o c \o LINE_TERMINATORS \o f =>
            /\ c = <<"0">> => decoded = Ok(Array(<<>>), f)
            /\ c \in NegativeCounts \cup NonNumericCounts => decoded.status = "Err"

(***************************************************************************)
(* C17.  When the stream ends before the whole message has arrived, read   *)
(* returns an error and never a value.                                     *)
(*                                                                         *)
(* BufRead::read_line at the end of the input is Ok(0) with an empty line, *)
(* which read_line passes on: *2\r\n:-1\r\n reads as an Array whose second *)
(* element is Error("Unknown error"), and $1\r\n reads as BulkString("").  *)
(***************************************************************************)
C17_TruncatedFails ==
    cpc = "read_cut" => decoded.status = "Err"

\* what the protocol prescribes for the elements used here, byte for byte,
\* and for arrays of them
RECURSIVE Encoding(_)
Encoding(v) ==
    CASE v.tag = "Array" ->
           <<"*">> \o to_string(Len(v.items)) \o <<"\r", "\n">>
             \o Concat([i \in 1..Len(v.items) |-> Encoding(v.items[i])])
      [] v = BulkString(<<"a">>) -> <<"$", "1", "\r", "\n", "a", "\r", "\n">>
      [] v = SimpleString(<<"O", "K">>) -> <<"+", "O", "K", "\r", "\n">>
      [] v = Integer(0 - 1) -> <<":", "-", "1", "\r", "\n">>
      [] v = Null -> <<"$", "-", "1", "\r", "\n">>

(***************************************************************************)
(* C18.  An Array is written as "*", the number of its elements in         *)
(* decimal, CRLF, and then the encodings of its elements in order with     *)
(* nothing between or after them, nested arrays likewise.  The empty Array *)
(* is *0 CRLF, Null is $-1 CRLF and the empty BulkString is $0 CRLF CRLF.  *)
(***************************************************************************)
C18_ArrayEncoding ==
    cpc = "input" /\ data # NoValue =>
        /\ data.tag = "Array" => buf = Encoding(data)
        /\ data = Array(<<>>) => buf = <<"*", "0", "\r", "\n">>
        /\ data = Null => buf = <<"$", "-", "1", "\r", "\n">>
        /\ data = BulkString(<<>>) => buf = <<"$", "0", "\r", "\n", "\r", "\n">>

\* a nested array has been written: *2 $1 a *2 :-1 $-1
C18_Witness ==
    /\ cpc = "input"
    /\ data = Array(<<BulkString(<<"a">>), Array(<<Integer(0 - 1), Null>>)>>)
    /\ buf = <<"*", "2", "\r", "\n", "$", "1", "\r", "\n", "a", "\r", "\n",
               "*", "2", "\r", "\n", ":", "-", "1", "\r", "\n",
               "$", "-", "1", "\r", "\n">>

\* the step handles a SET request naming key k
SetsKey(k) ==
    /\ Handling
    /\ IsCmdArray(req', "SET")
    /\ Len(req'.items) = 3
    /\ req'.items[2] = BulkString(k)

(***************************************************************************)
(* C21.  Connections are served one at a time against one store: once a    *)
(* response is due nothing happens but its writing, which leaves the store *)
(* as it is and makes the loop accept again; a string set at k stays at k  *)
(* through every step that is not another SET of k; and a GET k handled on *)
(* any connection while it is there returns it.                            *)
(***************************************************************************)
C21_SharedStore ==
    [][/\ pc = "write" => pc' = "accept" /\ db' = db
       /\ pc = "accept" => pc' \in {"write", "panicked"}
       /\ \A k, v \in ArgTexts :
            (k \in DOMAIN db /\ db[k] = String(v)) =>
                /\ ~SetsKey(k) => k \in DOMAIN db' /\ db'[k] = String(v)
                /\ Handling /\ req' = Request("GET", <<k>>) => Replied(BulkString(v))]_vars

\* a GET is answered with the string that a SET on an earlier connection left
C21_Witness ==
    /\ pc = "write"
    /\ req = Request("GET", <<"a">>)
    /\ reply = BulkString("HSET")
    /\ db["a"] = String("HSET")

(***************************************************************************)
(* C22.  When reading the request of a connection fails with an error, the *)
(* server keeps its store and is ready to accept the next connection.      *)
(*                                                                         *)
(* main calls resp.read().unwrap(): the Err panics in main and the process *)
(* ends; no connection after it is accepted.                               *)
(***************************************************************************)
C22_DecodeFailureNotFatal ==
    [][decoded' # decoded =>
         (decoded'.status = "Err" => pc' = "accept" /\ db' = db)]_vars

ReadOnlyCmds == {"PING", "GET", "HGET", "HGETALL"}

(***************************************************************************)
(* C23.  A request dispatched to PING, GET, HGET or HGETALL, whatever its  *)
(* shape and arguments, leaves the store as it was, and one dispatched to  *)
(* PING is answered SimpleString("PONG").                                  *)
(***************************************************************************)
C23_ReadOnly ==
    [][(Handling /\ HasCmd(req') /\ to_uppercase(Cmd(req')) \in ReadOnlyCmds)
         => /\ db' = db
            /\ to_uppercase(Cmd(req')) = "PING" => Replied(SimpleString("PONG"))]_vars

\* a PING with two arguments, not both BulkStrings, answered PONG over a store that is not empty
C23_Witness ==
    /\ pc = "write"
    /\ IsCmdArray(req, "PING")
    /\ Len(req.items) = 3
    /\ ~BulkArguments(req)
    /\ reply = SimpleString("PONG")
    /\ DOMAIN db # {}

\* the request with every SimpleString argument replaced by the BulkString of the same text
AsBulk(x) == IF x.tag = "SimpleString" THEN BulkString(x.s) ELSE x

WithBulkArguments(r) ==
    Array([i \in 1..Len(r.items) |-> IF i = 1 THEN r.items[1] ELSE AsBulk(r.items[i])])

(***************************************************************************)
(* C24.  SET, GET, HSET, HGET and HGETALL treat a SimpleString argument as *)
(* the BulkString of the same text: the reply and the resulting store are  *)
(* those of the request with BulkString arguments.                         *)
(*                                                                         *)
(* The commands match their arguments against RespData::BulkString only:   *)
(* [SET, SimpleString a, BulkString a] is answered with the arity error    *)
(* and stores nothing, [HGETALL, SimpleString a] panics.                   *)
(***************************************************************************)
C24_SimpleStringArguments ==
    [][(Handling /\ IsArray(req') /\ HasCmd(req')
          /\ to_uppercase(Cmd(req')) \in SixCmds \ {"PING"})
         => \E out \in handle(db, WithBulkArguments(req')) :
                /\ out.panicked = (pc' = "panicked")
                /\ db' = out.db
                /\ reply' = out.reply]_vars

====
